---- MODULE Spec2Model ----
(***************************************************************************)
(* A model of timesync (src/src/timesync.js, util.js, stat.js): the        *)
(* request correlator (rpc / receive / _handleRPCSendError), the peer      *)
(* sampler (_getOffset / _syncWithPeer), the orchestrator (sync) and the   *)
(* scheduler (constructor, its two timers, destroy).                       *)
(*                                                                         *)
(* Spec is an instance with interval: null whose host calls sync();        *)
(* SpecCorrelator adds a host that hands receive any envelope;             *)
(* SpecScheduler starts before the constructor and lets its timers call    *)
(* sync(); SpecSampler applies _getOffset and the reduction of             *)
(* _syncWithPeer to one input each.                                        *)
(*                                                                         *)
(* Reading of the source.  The methods are read as the methods of one      *)
(* TimeSync instance running on a single-threaded event loop: one action   *)
(* is one run-to-completion step (a synchronous call, a promise            *)
(* continuation, a timer callback).  Names are resolved the way the text   *)
(* evidently means them (this inside the helpers of _syncWithPeer is the   *)
(* instance, timestamp of _getOffset is the awaited reply, len and sorted  *)
(* of median are arr.length and the sorted arr, emit dispatches an event). *)
(* Control flow, conditions, order and arithmetic are as written.          *)
(* Numbers are exact rationals; NaN, undefined and null are tagged values. *)
(***************************************************************************)
EXTENDS Integers, Sequences, FiniteSets, TLC

\* ------------------------------------------------------------- bounds
MaxSyncs == 2
MaxClock == 1
MaxRepeat == 2
MaxCalls == 2

\* ------------------------------------------------------------- numbers
RECURSIVE GCD(_, _)
GCD(a, b) == IF b = 0 THEN a ELSE GCD(b, a % b)

Abs(i) == IF i < 0 THEN -i ELSE i

Norm(n, d) ==
  LET g == GCD(Abs(n), d)
  IN  [t |-> "num", n |-> n \div g, d |-> d \div g]

ToNum(i) == [t |-> "num", n |-> i, d |-> 1]
NaN == [t |-> "NaN", n |-> 0, d |-> 1]
Undefined == [t |-> "undefined", n |-> 0, d |-> 1]
Null == [t |-> "null", n |-> 0, d |-> 1]

\* JS ToNumber: null is 0, undefined is NaN
ToNumber(x) ==
  CASE x.t = "num" -> x
    [] x.t = "null" -> ToNum(0)
    [] OTHER -> NaN

IsNum(x) == x.t = "num"

Neg(x) == IF IsNum(x) THEN [x EXCEPT !.n = -x.n] ELSE x

Mul(x, y) ==
  LET a == ToNumber(x)
      b == ToNumber(y)
  IN  IF IsNum(a) /\ IsNum(b) THEN Norm(a.n * b.n, a.d * b.d) ELSE NaN

DivBy(x, k) ==
  LET a == ToNumber(x)
  IN  IF IsNum(a) THEN Norm(a.n, a.d * k) ELSE NaN

Less(x, y) == IsNum(x) /\ IsNum(y) /\ x.n * y.d < y.n * x.d

\* ------------------------------------------------------------- stat.js
add(a, b) ==
  LET x == ToNumber(a)
      y == ToNumber(b)
  IN  IF IsNum(x) /\ IsNum(y) THEN Norm(x.n * y.d + y.n * x.d, x.d * y.d) ELSE NaN

Sub(a, b) == add(a, Neg(ToNumber(b)))

compare(a, b) == IF Less(b, a) THEN 1 ELSE IF Less(a, b) THEN -1 ELSE 0

\* arr.reduce(add): defined on non-empty arrays only (reduce of [] throws)
RECURSIVE sum(_)
sum(arr) ==
  IF Len(arr) = 1 THEN arr[1]
  ELSE add(sum(SubSeq(arr, 1, Len(arr) - 1)), arr[Len(arr)])

mean(arr) == DivBy(sum(arr), Len(arr))

variance(arr) ==
  IF Len(arr) < 2 THEN ToNum(0)
  ELSE LET m == mean(arr)
           sq == [i \in 1..Len(arr) |-> Mul(Sub(arr[i], m), Sub(arr[i], m))]
       IN  DivBy(sum(sq), Len(arr) - 1)

\* Math.sqrt(variance(arr)) is kept symbolic: the value whose square is .sqrtOf
std(arr) == [sqrtOf |-> variance(arr)]

RECURSIVE Insert(_, _)
Insert(x, s) ==
  IF s = <<>> THEN <<x>>
  ELSE IF compare(x, s[1]) <= 0 THEN <<x>> \o s
  ELSE <<s[1]>> \o Insert(x, Tail(s))

\* arr.sort(compare)
RECURSIVE sort(_)
sort(arr) == IF arr = <<>> THEN <<>> ELSE Insert(arr[1], sort(Tail(arr)))

median(arr) ==
  IF Len(arr) < 2
  THEN IF Len(arr) = 0 THEN Undefined ELSE arr[1]
  ELSE LET sorted == sort(arr)
           half == Len(arr) \div 2
       IN  IF Len(arr) % 2 = 0
           THEN DivBy(add(sorted[half + 1], sorted[half]), 2)
           ELSE sorted[half + 1]

\* ------------------------------------------------------------- environment
AllPeers == {"p1", "p2"}

\* times a peer may report in a reply (data.result)
Results == {ToNum(10)}

\* what this.send (the host's transport) may do with a message:
\* throw synchronously, return a promise, return something else
SendOutcomes == {"throw", "promise", "other"}

\* the configurations the constructor accepts: a single server, or peers
ServerConfigs ==
  { [server |-> "p1", peers |-> <<>>, repeat |-> n] : n \in 0..MaxRepeat }

PeersConfigs ==
  { [server |-> "none", peers |-> <<"p1", "p2">>, repeat |-> n] : n \in 0..MaxRepeat }

NoId == -1
NoTask ==
  [pc |-> "none", id |-> NoId, start |-> 0, reply |-> Undefined, all |-> <<>>,
   attempts |-> 0, successes |-> 0, result |-> Undefined]
NullSample == [null |-> TRUE, roundtrip |-> NaN, offset |-> NaN]

VARIABLES
  options,      \* this.options
  offset,       \* this.offset
  isFirst,      \* this._isFirst
  inProgress,   \* keys of this._inProgress
  nextIdValue,  \* _id of util.js
  clock,        \* what options.now() returns
  calls,        \* calls[id + 1]: the deferred of rpc call id and its send
  task,         \* task[r][p]: the _syncWithPeer(p) run of the r-th sync()
  syncPc,       \* syncPc[r]: where the r-th sync() call is
  before,       \* before[r]: this.offset when the r-th sync() was called
  events,       \* the events emitted so far, in order
  outbox,       \* the messages the last step handed to this.send
  ctor,         \* where new TimeSync(options) is: "new", "done", "threw"
  interval,     \* this._interval: "null", or "armed" (the setInterval timer)
  firstSync,    \* the setTimeout(..., 0) of the constructor: "none", "pending", "fired"
  destroyed,    \* destroy() was called
  trigger,      \* trigger[r]: who called the r-th sync(): the host or a timer
  errors,       \* the rounds whose rejection was emitted as an 'error' event
  args,         \* the arguments of a function called on its own
  returned      \* what that call returned: <<>> until it returns, then <<value>>

schedVars == <<ctor, interval, firstSync, destroyed, trigger, errors>>

callVars == <<args, returned>>

vars == <<options, offset, isFirst, inProgress, nextIdValue, clock, calls,
          task, syncPc, before, events, outbox, schedVars, callVars>>

Rounds == 1..MaxSyncs

Call(id) == calls[id + 1]

\* the fields of a new instance (lines 20-33) and of the module (util.js:45)
Fields ==
  /\ offset = ToNum(0)
  /\ isFirst = TRUE
  /\ inProgress = {}
  /\ nextIdValue = 0
  /\ clock = 0
  /\ calls = <<>>
  /\ task = [r \in Rounds |-> [p \in AllPeers |-> NoTask]]
  /\ syncPc = [r \in Rounds |-> "idle"]
  /\ before = [r \in Rounds |-> ToNum(0)]
  /\ events = <<>>
  /\ outbox = <<>>
  /\ interval = "null"
  /\ firstSync = "none"
  /\ destroyed = FALSE
  /\ trigger = [r \in Rounds |-> "none"]
  /\ errors = <<>>

\* the instance after new TimeSync(options) with interval: null returned:
\* no timer is armed (line 273)
InitState == Fields /\ ctor = "done" /\ args = [op |-> "none"] /\ returned = <<>>

Init == options \in ServerConfigs \cup PeersConfigs /\ InitState

\* ------------------------------------------------------------- timesync.js
\* what options.now() may return when read: local time never runs backwards
Clock == clock..MaxClock

\* now(): options.now() + this.offset
now(t) == add(ToNum(t), offset)

isNaN(x) == ToNumber(x).t = "NaN"
isFinite(x) == ToNumber(x).t = "num"

_validOffset(x) == x.t # "null" /\ ~isNaN(x) /\ isFinite(x)

\* mutant of rpc: a synchronous throw of send leaves the call pending
rpcPendingAfterThrow(oc) == [state |-> "pending", send |-> oc]

\* the deferred and the send of one rpc(to, 'timesync') whose send did oc.
\* state: the deferred (pending, resolved, rejected); send: what send did
\* ("throw", "other", "promise" while the promise it returned can still
\* reject into _handleRPCSendError, "rejected" once it has).
\* A synchronous throw runs _handleRPCSendError at once.
rpc(oc) ==
  [state |-> IF oc = "throw" THEN "rejected" ELSE "pending",
   send |-> oc]

Request(to, id) == [to |-> to, id |-> id, method |-> TRUE, result |-> Undefined]
Reply(to, id, result) == [to |-> to, id |-> id, method |-> FALSE, result |-> result]

\* the peers sync() samples: [server] when configured, else peers
EffectivePeers == IF options.server # "none" THEN <<options.server>> ELSE options.peers

PeersOf == {EffectivePeers[i] : i \in 1..Len(EffectivePeers)}

\* mutant of Limit: the limit is the median alone
LimitIsMedian(roundtrips) == [sqrtOf |-> ToNum(0), plus |-> median(roundtrips)]

\* limit = std(roundtrips) + median(roundtrips), kept as sqrt(.sqrtOf) + .plus
Limit(roundtrips) == [sqrtOf |-> std(roundtrips).sqrtOf, plus |-> median(roundtrips)]

\* mutant of BelowLimit: roundtrip <= limit
BelowOrAtLimit(roundtrip, limit) ==
  LET dlt == Sub(roundtrip, limit.plus)
  IN  /\ IsNum(dlt)
      /\ IsNum(limit.sqrtOf)
      /\ \/ dlt.n <= 0
         \/ Less(Mul(dlt, dlt), limit.sqrtOf)

\* roundtrip < limit, decided exactly: roundtrip - plus < sqrt(sqrtOf)
BelowLimit(roundtrip, limit) ==
  LET dlt == Sub(roundtrip, limit.plus)
  IN  /\ IsNum(dlt)
      /\ IsNum(limit.sqrtOf)
      /\ \/ dlt.n < 0
         \/ Less(Mul(dlt, dlt), limit.sqrtOf)

\* the tail of _syncWithPeer: from the collected samples to the peer's offset
PeerOffset(all) ==
  LET results == SelectSeq(all, LAMBDA s : ~s.null)
      roundtrips == [i \in 1..Len(results) |-> results[i].roundtrip]
      limit == Limit(roundtrips)
      filtered == SelectSeq(results, LAMBDA s : BelowLimit(s.roundtrip, limit))
      offsets == [i \in 1..Len(filtered) |-> filtered[i].offset]
  IN  IF Len(offsets) > 0 THEN mean(offsets) ELSE Null

Event(name, value, r, line) == [name |-> name, value |-> value, by |-> r, line |-> line]

\* the sync() call that comes next
NextRound == CHOOSE r \in Rounds : syncPc[r] = "idle" /\ \A q \in 1..(r - 1) : syncPc[q] # "idle"

\* sync(): runs synchronously to line 136: emits 'sync' 'start', starts
\* _syncWithPeer for every peer (each runs to its first await: start = now(),
\* rpc, send), then calls .filter on the promise Promise.all returned, which
\* is no function: the call throws a TypeError and sync() rejects there.
sync(oc, nw) ==
  LET r == NextRound
      n == Len(EffectivePeers)
      idOf(i) == nextIdValue + i - 1
  IN  /\ \E q \in Rounds : syncPc[q] = "idle"
      /\ nextIdValue + n <= MaxCalls
      /\ events' = Append(events, Event("sync:start", Undefined, r, 129))
      /\ before' = [before EXCEPT ![r] = offset]
      /\ calls' = calls \o [i \in 1..n |-> rpc(oc[i])]
      /\ inProgress' = inProgress \cup {idOf(i) : i \in {j \in 1..n : oc[j] # "throw"}}
      /\ nextIdValue' = nextIdValue + n
      /\ outbox' = [i \in 1..n |-> Request(EffectivePeers[i], idOf(i))]
      /\ task' = [task EXCEPT ![r] =
           [p \in AllPeers |->
              IF p \in PeersOf
              THEN LET i == CHOOSE j \in 1..n : EffectivePeers[j] = p
                   IN  [NoTask EXCEPT !.pc = "rpc", !.id = idOf(i), !.start = nw]
              ELSE NoTask]]
      /\ syncPc' = [syncPc EXCEPT ![r] = "TypeError"]
      /\ clock' = nw
      /\ UNCHANGED <<options, offset, isFirst>>

\* the host calls sync()
Sync ==
  /\ ctor = "done"
  /\ \E oc \in [1..Len(EffectivePeers) -> SendOutcomes], nw \in Clock : sync(oc, nw)
  /\ trigger' = [trigger EXCEPT ![NextRound] = "host"]
  /\ UNCHANGED <<ctor, interval, firstSync, destroyed, errors, callVars>>

\* _syncWithPeer after a sample was pushed: the loop test (all.length <
\* repeat), then either the delay or the reduction to the peer's offset.
\* attempts and successes count the samples pushed and the non-null ones;
\* the locals (all, start) are dropped when the run returns.
AfterPush(t, sample) ==
  LET all == Append(t.all, sample)
      ok == t.successes + (IF sample.null THEN 0 ELSE 1)
  IN  IF Len(all) < options.repeat
      THEN [t EXCEPT !.pc = "wait", !.id = NoId, !.reply = Undefined, !.all = all,
                     !.attempts = Len(all), !.successes = ok]
      ELSE [t EXCEPT !.pc = "done", !.id = NoId, !.reply = Undefined, !.all = <<>>, !.start = 0,
                     !.attempts = Len(all), !.successes = ok, !.result = PeerOffset(all)]

\* mutant of IsFirstSample: every successful sample is applied directly
IsFirstSampleAlways == TRUE

\* line 217: if (this._isFirst)
IsFirstSample == isFirst

\* mutant of FirstFlagAfter: the flag is never cleared
FirstFlagKept == TRUE

\* line 218: this._isFirst = false
FirstFlagAfter == FALSE

\* mutant of Sample: the roundtrip is not halved
SampleWithoutHalving(start, timestamp, end) ==
  LET roundtrip == Sub(end, start)
      off == add(Sub(timestamp, end), roundtrip)
  IN  [null |-> FALSE, roundtrip |-> roundtrip, offset |-> off]

\* what _getOffset returns for a reply (lines 212-214, 223-226)
Sample(start, timestamp, end) ==
  LET roundtrip == Sub(end, start)
      off == add(Sub(timestamp, end), DivBy(roundtrip, 2))
  IN  [null |-> FALSE, roundtrip |-> roundtrip, offset |-> off]

\* _getOffset after its rpc settled (lines 207-226), then all.push(result)
_getOffset(r, p, nw) ==
  LET t == task[r][p]
      sample == Sample(ToNum(t.start), t.reply, ToNum(nw))
      off == sample.offset
  IN  /\ t.pc = "rpc"
      /\ Call(t.id).state # "pending"
      /\ IF Call(t.id).state = "rejected"
         THEN /\ task' = [task EXCEPT ![r][p] = AfterPush(t, NullSample)]
              /\ nw = clock
              /\ UNCHANGED <<offset, isFirst, events, clock>>
         ELSE /\ task' = [task EXCEPT ![r][p] = AfterPush(t, sample)]
              /\ clock' = nw
              /\ IF IsFirstSample
                 THEN /\ isFirst' = FirstFlagAfter
                      /\ offset' = off
                      /\ events' = Append(events, Event("change", off, r, 220))
                 ELSE UNCHANGED <<offset, isFirst, events>>
      /\ outbox' = <<>>
      /\ UNCHANGED <<options, inProgress, nextIdValue, calls, syncPc, before, schedVars, callVars>>

GetOffset ==
  \E r \in Rounds, p \in AllPeers :
    task[r][p].pc = "rpc" /\ \E nw \in Clock : _getOffset(r, p, nw)

\* mutant of Waiting: the next attempt may start while one is in flight
WaitingOrSampling(t) == t.pc \in {"wait", "rpc"}

\* the run is in util.wait(delay) of waitAndSync (line 171): the sample of
\* the previous attempt was pushed and notDone() held
Waiting(t) == t.pc = "wait"

\* waitAndSync: the delay timer fires and the next _getOffset starts
waitAndSync(r, p, oc, nw) ==
  LET t == task[r][p]
      id == nextIdValue
  IN  /\ Waiting(t)
      /\ nextIdValue < MaxCalls
      /\ nextIdValue' = nextIdValue + 1
      /\ calls' = Append(calls, rpc(oc))
      /\ inProgress' = IF oc = "throw" THEN inProgress ELSE inProgress \cup {id}
      /\ task' = [task EXCEPT ![r][p] = [t EXCEPT !.pc = "rpc", !.id = id, !.start = nw]]
      /\ outbox' = <<Request(p, id)>>
      /\ clock' = nw
      /\ UNCHANGED <<options, offset, isFirst, syncPc, before, events, schedVars, callVars>>

WaitAndSync ==
  \E r \in Rounds, p \in AllPeers :
    Waiting(task[r][p]) /\ \E oc \in SendOutcomes, nw \in Clock : waitAndSync(r, p, oc, nw)

\* mutant of _handleRPCSendError: the call is rejected, its entry is kept
HandleSendErrorKeepsEntry(id) ==
  /\ Call(id).send = "promise"
  /\ inProgress' = inProgress
  /\ calls' = [calls EXCEPT ![id + 1] =
       [state |-> IF @.state = "pending" THEN "rejected" ELSE @.state,
        send |-> "rejected"]]
  /\ outbox' = <<>>
  /\ UNCHANGED <<options, offset, isFirst, nextIdValue, clock, task, syncPc, before, events, schedVars, callVars>>

\* mutant of _handleRPCSendError: a pending call is rejected and its entry
\* removed though its send did not fail (a timeout of the call's own)
RejectsOnTimeout(id) ==
  /\ Call(id).state = "pending"
  /\ inProgress' = inProgress \ {id}
  /\ calls' = [calls EXCEPT ![id + 1] = [@ EXCEPT !.state = "rejected"]]
  /\ outbox' = <<>>
  /\ UNCHANGED <<options, offset, isFirst, nextIdValue, clock, task, syncPc, before, events, schedVars, callVars>>

\* the promise send returned for call id rejects: _handleRPCSendError
_handleRPCSendError(id) ==
  /\ Call(id).send = "promise"
  /\ inProgress' = inProgress \ {id}
  /\ calls' = [calls EXCEPT ![id + 1] =
       [state |-> IF @.state = "pending" THEN "rejected" ELSE @.state,
        send |-> "rejected"]]
  /\ outbox' = <<>>
  /\ UNCHANGED <<options, offset, isFirst, nextIdValue, clock, task, syncPc, before, events, schedVars, callVars>>

SendRejects == \E id \in 0..(Len(calls) - 1) : _handleRPCSendError(id)

\* mutant of Resolver: the call is resolved, its entry is kept
ResolverKeepsEntry(id, data) ==
  /\ inProgress' = inProgress
  /\ calls' = [calls EXCEPT ![id + 1] =
       IF @.state = "pending" THEN [@ EXCEPT !.state = "resolved"] ELSE @]
  /\ task' = [r \in Rounds |-> [p \in AllPeers |->
       IF task[r][p].pc = "rpc" /\ task[r][p].id = id /\ Call(id).state = "pending"
       THEN [task[r][p] EXCEPT !.reply = data]
       ELSE task[r][p]]]

\* this._inProgress[id](data): the resolver rpc registered (lines 96-100)
Resolver(id, data) ==
  /\ inProgress' = inProgress \ {id}
  /\ calls' = [calls EXCEPT ![id + 1] =
       IF @.state = "pending" THEN [@ EXCEPT !.state = "resolved"] ELSE @]
  /\ task' = [r \in Rounds |-> [p \in AllPeers |->
       IF task[r][p].pc = "rpc" /\ task[r][p].id = id /\ Call(id).state = "pending"
       THEN [task[r][p] EXCEPT !.reply = data]
       ELSE task[r][p]]]

\* the envelopes the host may hand to receive
Envelopes ==
  [id : {NoId} \cup 0..Len(calls), method : BOOLEAN, result : Results \cup {Undefined}]

Sources == AllPeers \cup {"undefined"}

\* receive(from, data)
receive(from, data, nw) ==
  /\ IF data.id \in inProgress
     THEN /\ Resolver(data.id, data.result)
          /\ outbox' = <<>>
          /\ nw = clock
     ELSE IF data.id # NoId
     THEN /\ outbox' = <<Reply(from, data.id, now(nw))>>
          /\ UNCHANGED <<inProgress, calls, task>>
     ELSE /\ outbox' = <<>>
          /\ nw = clock
          /\ UNCHANGED <<inProgress, calls, task>>
  /\ clock' = nw
  /\ UNCHANGED <<options, offset, isFirst, nextIdValue, syncPc, before, events, schedVars, callVars>>

\* the host delivers an envelope whose id is the id of a pending call
Deliver ==
  \E from \in Sources, data \in Envelopes :
    data.id \in inProgress /\ receive(from, data, clock)

\* the host delivers any other envelope
Stray ==
  \E from \in Sources, data \in Envelopes, nw \in Clock :
    data.id \notin inProgress /\ receive(from, data, nw)

Next == Sync \/ GetOffset \/ WaitAndSync \/ SendRejects \/ Deliver

\* the instance with a transport that delivers only envelopes that match a
\* pending call by id (replies, and requests whose id collides)
Spec == Init /\ [][Next]_vars

\* the instance in server mode with a host that hands receive any envelope
InitCorrelator == options \in ServerConfigs /\ InitState

NextCorrelator == Sync \/ GetOffset \/ WaitAndSync \/ SendRejects \/ Deliver \/ Stray

SpecCorrelator == InitCorrelator /\ [][NextCorrelator]_vars

\* ------------------------------------------------------------- scheduler
\* the options objects the host may pass to new TimeSync(options): given is
\* the set of the keys server and peers it carries (a given server is a
\* non-empty string, given peers an array, possibly empty: both truthy).
\* repeat is 1: one sample per peer and round, no delay timer
Arguments ==
  { [given |-> g,
     server |-> IF "server" \in g THEN "p1" ELSE "none",
     peers |-> IF "peers" \in g THEN ps ELSE <<>>,
     repeat |-> 1,
     interval |-> iv] :
    g \in SUBSET {"server", "peers"}, ps \in {<<>>, <<"p2">>}, iv \in {"null", "set"} }

\* mutant of BothConfigured: the constructor accepts every options object
NeverBothConfigured(o) == FALSE

\* line 259: options.server && options.peers
BothConfigured(o) == "server" \in o.given /\ "peers" \in o.given

\* new TimeSync(options), lines 257-283: throws when both server and peers
\* are given, else merges the options over the defaults (Arguments carries
\* the defaults of the keys not given) and, unless interval is null, arms
\* the recurring timer and the deferred first sync
constructor ==
  /\ ctor = "new"
  /\ IF BothConfigured(options)
     THEN /\ ctor' = "threw"
          /\ UNCHANGED <<interval, firstSync>>
     ELSE /\ ctor' = "done"
          /\ interval' = IF options.interval # "null" THEN "armed" ELSE "null"
          /\ firstSync' = IF options.interval # "null" THEN "pending" ELSE "none"
  /\ UNCHANGED <<options, offset, isFirst, inProgress, nextIdValue, clock, calls, task,
                 syncPc, before, events, outbox, destroyed, trigger, errors, callVars>>

\* the timer of line 275 fires: setInterval(this.sync, interval) calls
\* sync() and drops the promise it returns: its rejection is handled by
\* nobody.  The timer of line 279 was armed for 0 ms and fires before it.
IntervalFires ==
  /\ ctor = "done"
  /\ interval = "armed"
  /\ firstSync # "pending"
  /\ \E oc \in [1..Len(EffectivePeers) -> SendOutcomes], nw \in Clock : sync(oc, nw)
  /\ trigger' = [trigger EXCEPT ![NextRound] = "interval"]
  /\ UNCHANGED <<ctor, interval, firstSync, destroyed, errors, callVars>>

\* the timer of line 279 fires: this.sync().catch(err => emitError(err));
\* sync() rejects in this step (line 136), and the handler runs in the
\* microtasks that end the step
FirstSync ==
  /\ ctor = "done"
  /\ firstSync = "pending"
  /\ \E oc \in [1..Len(EffectivePeers) -> SendOutcomes], nw \in Clock : sync(oc, nw)
  /\ firstSync' = "fired"
  /\ trigger' = [trigger EXCEPT ![NextRound] = "timeout"]
  /\ errors' = IF syncPc'[NextRound] = "TypeError" THEN Append(errors, NextRound) ELSE errors
  /\ UNCHANGED <<ctor, interval, destroyed, callVars>>

\* destroy(), lines 242-245: clearInterval(this._interval), this._interval = null
destroy ==
  /\ ctor = "done"
  /\ interval' = "null"
  /\ destroyed' = TRUE
  /\ UNCHANGED <<options, offset, isFirst, inProgress, nextIdValue, clock, calls, task,
                 syncPc, before, events, outbox, ctor, firstSync, trigger, errors, callVars>>

InitScheduler ==
  options \in Arguments /\ Fields /\ ctor = "new" /\ args = [op |-> "none"] /\ returned = <<>>

NextScheduler ==
  \/ constructor
  \/ IntervalFires
  \/ FirstSync
  \/ destroy
  \/ GetOffset
  \/ SendRejects
  \/ Deliver

\* the host constructs an instance and may call destroy(); sync() is called
\* by the timers of the constructor only
SpecScheduler == InitScheduler /\ [][NextScheduler]_vars

\* ------------------------------------------------------------- the sampler's functions
\* the longest array of samples _syncWithPeer is called to reduce
MaxSamples == 4

\* local times (options.now()) and peer times (the reply) of one sample
LocalTimes == {0, 1, 100, 120}
PeerTimes == {7, 1000}

\* the roundtrips and offsets of the samples of one run
Roundtrips == {10, 11, 12, 500}
Offsets == {0, 9}

Samples ==
  {NullSample} \cup
  { [null |-> FALSE, roundtrip |-> ToNum(rt), offset |-> ToNum(o)] :
    rt \in Roundtrips, o \in Offsets }

\* one _getOffset whose rpc resolved: start, the reply, end (start <= end)
GetOffsetArgs ==
  { a \in [op : {"_getOffset"}, start : LocalTimes, timestamp : PeerTimes, end : LocalTimes] :
    a.start <= a.end }

\* the array all of one _syncWithPeer run when its loop has ended
SyncWithPeerArgs ==
  { [op |-> "_syncWithPeer", all |-> all] :
    all \in UNION { [1..n -> Samples] : n \in 0..MaxSamples } }

\* _getOffset returns the sample of (start, timestamp, end)
GetOffsetReturns ==
  /\ args.op = "_getOffset"
  /\ returned = <<>>
  /\ returned' = <<Sample(ToNum(args.start), ToNum(args.timestamp), ToNum(args.end))>>
  /\ UNCHANGED <<options, offset, isFirst, inProgress, nextIdValue, clock, calls, task,
                 syncPc, before, events, outbox, schedVars, args>>

\* _syncWithPeer returns the offset it reduces all to (lines 181-193)
SyncWithPeerReturns ==
  /\ args.op = "_syncWithPeer"
  /\ returned = <<>>
  /\ returned' = <<PeerOffset(args.all)>>
  /\ UNCHANGED <<options, offset, isFirst, inProgress, nextIdValue, clock, calls, task,
                 syncPc, before, events, outbox, schedVars, args>>

InitSampler ==
  /\ options \in {c \in ServerConfigs : c.repeat = MaxRepeat}
  /\ Fields
  /\ ctor = "done"
  /\ args \in GetOffsetArgs \cup SyncWithPeerArgs
  /\ returned = <<>>

NextSampler == GetOffsetReturns \/ SyncWithPeerReturns

\* the arithmetic of the sampler, each function applied to one input
SpecSampler == InitSampler /\ [][NextSampler]_vars

\* ------------------------------------------------------------- claims
\* the r-th sync() was called and every _syncWithPeer run it started returned
Finished(r) == syncPc[r] # "idle" /\ \A p \in PeersOf : task[r][p].pc = "done"

\* every sampling attempt of the r-th sync() failed
AllAttemptsFailed(r) == \A p \in PeersOf : task[r][p].successes = 0

\* the per-peer offsets of the r-th sync(), in peer order, that _validOffset keeps
ValidOffsets(r) ==
  LET offsets == [i \in 1..Len(EffectivePeers) |-> task[r][EffectivePeers[i]].result]
  IN  SelectSeq(offsets, _validOffset)

Emitted(name, r) == \E i \in DOMAIN events : events[i].name = name /\ events[i].by = r

\* no other sync() call obtained a sample
OnlyRound(r) == \A q \in Rounds \ {r} : \A p \in AllPeers : task[q][p].successes = 0

\* C1: a sync() round in which every sampling attempt to every peer failed
\* leaves the offset at its value before the round, emits no 'change', and
\* emits 'sync' 'start' and then 'sync' 'end'.
C1_AllPeersFail ==
  \A r \in Rounds :
    Finished(r) /\ AllAttemptsFailed(r) =>
      /\ \E i, j \in DOMAIN events :
           /\ i < j
           /\ events[i].name = "sync:start" /\ events[i].by = r
           /\ events[j].name = "sync:end" /\ events[j].by = r
      /\ ~Emitted("change", r)
      /\ OnlyRound(r) => offset = before[r]

\* C2: a sync() round that finished with at least one valid per-peer offset
\* has set the offset to the mean of the valid per-peer offsets and emitted
\* 'change' with that value.
C2_MeanOfValidOffsets ==
  \A r \in Rounds :
    Finished(r) /\ Len(ValidOffsets(r)) > 0 =>
      /\ \E i \in DOMAIN events :
           events[i] = Event("change", mean(ValidOffsets(r)), r, 140)
      /\ OnlyRound(r) => offset = mean(ValidOffsets(r))

\* C3: join barrier: sync() reaches its filtering and averaging of the
\* per-peer results (line 136 and after) only when the sampling of every
\* peer of the round, retries included, has completed.
C3_JoinBarrier ==
  \A r \in Rounds :
    syncPc[r] # "idle" => \A p \in PeersOf : task[r][p].pc = "done"

\* C4: a sync() call that emitted 'sync' 'start' emits 'sync' 'end': once the
\* call and all the sampling it started are over, 'sync' 'end' was emitted.
C4_SyncEndFollowsStart ==
  \A r \in Rounds :
    Emitted("sync:start", r) /\ Finished(r) => Emitted("sync:end", r)

DirectChanges == SelectSeq(events, LAMBDA e : e.name = "change" /\ e.line = 220)

C7_RequestAlwaysInbound ==
  [][ \A from \in Sources, data \in Envelopes, nw \in Clock :
        data.method /\ data.id # NoId /\ receive(from, data, nw) =>
          /\ outbox' = <<Reply(from, data.id, now(nw))>>
          /\ inProgress' = inProgress
          /\ calls' = calls
    ]_vars

\* the _getOffset that awaits call id holds v as the awaited result
AwaitedResult(id, v) ==
  \E r \in Rounds, p \in AllPeers :
    task'[r][p].pc = "rpc" /\ task'[r][p].id = id /\ task'[r][p].reply = v

\* C8: receive of an envelope whose id is that of a pending call and that
\* carries a result and no method resolves that call with that result and
\* removes its entry; every other entry and call is unchanged and no
\* message is sent.
C8_ReplyResolvesCall ==
  [][ \A from \in Sources, data \in Envelopes :
        /\ ~data.method
        /\ data.result # Undefined
        /\ data.id \in inProgress
        /\ receive(from, data, clock)
        =>
        /\ calls'[data.id + 1].state = "resolved"
        /\ AwaitedResult(data.id, data.result)
        /\ inProgress' = inProgress \ {data.id}
        /\ \A id \in 0..(Len(calls) - 1) : id # data.id => calls'[id + 1] = calls[id + 1]
        /\ Len(calls') = Len(calls)
        /\ outbox' = <<>>
    ]_vars

\* C8 witness: a call was resolved by a reply while another call is pending
C8_Witness ==
  \E id \in 0..(Len(calls) - 1) :
    /\ Call(id).state = "resolved"
    /\ \E r \in Rounds, p \in AllPeers : task[r][p].id = id /\ task[r][p].reply \in Results
    /\ inProgress # {}

\* C9: when the send of a call fails (it throws, or the promise it returned
\* rejects) and the call is not completed yet, the call is rejected (the
\* only rejection is the 'Send failure' error) and its id is not pending;
\* otherwise the call stays pending, with its entry, until receive is
\* given an envelope that matches it by id.
C9_SendFailure ==
  [][ \A id \in 0..(Len(calls') - 1) :
        LET was == IF id < Len(calls) THEN Call(id).state ELSE "pending"
            sendWas == IF id < Len(calls) THEN Call(id).send ELSE "none"
            c == calls'[id + 1]
            failsNow == sendWas # c.send /\ c.send \in {"throw", "rejected"}
        IN  /\ failsNow /\ was = "pending" => c.state = "rejected" /\ id \notin inProgress'
            /\ c.send \in {"throw", "rejected"} => id \notin inProgress'
            /\ c.state = "pending" => id \in inProgress'
            /\ was = "pending" /\ c.state # "pending" =>
                 \/ failsNow /\ c.state = "rejected"
                 \/ /\ c.state = "resolved"
                    /\ \E from \in Sources, data \in Envelopes :
                         data.id = id /\ receive(from, data, clock)
    ]_vars

\* C9 witness: a send failed both ways: one threw, one promise rejected
C9_Witness ==
  /\ \E id \in 0..(Len(calls) - 1) : Call(id).send = "rejected" /\ Call(id).state = "rejected"
  /\ \E id \in 0..(Len(calls) - 1) : Call(id).send = "throw" /\ Call(id).state = "rejected"

\* C10: receive of an envelope that carries no method and whose id is not
\* that of a pending call (a late or duplicate reply) is discarded: no
\* pending entry changes and no message is sent.
C10_StrayReplyDiscarded ==
  [][ \A from \in Sources, data \in Envelopes, nw \in Clock :
        ~data.method /\ data.id \notin inProgress /\ receive(from, data, nw) =>
          /\ outbox' = <<>>
          /\ inProgress' = inProgress
          /\ calls' = calls
    ]_vars

\* C11: once destroy() was called no timer starts a sync() any more, whatever
\* the state destroy() was called in (also before the deferred first sync
\* fired); destroy() itself leaves the sampling in flight as it is: no call,
\* pending entry or _syncWithPeer run changes, so a sync() in flight goes on.
C11_NoAutomaticSyncAfterDestroy ==
  [][ /\ destroyed =>
           \A r \in Rounds : trigger'[r] \in {"timeout", "interval"} => trigger[r] = trigger'[r]
      /\ ~destroyed /\ destroyed' =>
           UNCHANGED <<task, calls, inProgress, syncPc, offset, isFirst, events>>
    ]_vars

RECURSIVE SumInts(_)
SumInts(q) == IF q = <<>> THEN 0 ELSE q[1] + SumInts(Tail(q))

\* the non-null samples of a run, and their roundtrips as integers
Successful(all) == SelectSeq(all, LAMBDA x : ~x.null)

RoundtripsOf(all) == [i \in 1..Len(Successful(all)) |-> Successful(all)[i].roundtrip.n]

\* the k-th smallest element of q
Kth(q, k) ==
  CHOOSE v \in {q[i] : i \in DOMAIN q} :
    /\ Cardinality({i \in DOMAIN q : q[i] < v}) < k
    /\ k <= Cardinality({i \in DOMAIN q : q[i] <= v})

\* twice the median of q (q not empty)
TwiceMedian(q) ==
  IF Len(q) % 2 = 1
  THEN 2 * Kth(q, (Len(q) + 1) \div 2)
  ELSE Kth(q, Len(q) \div 2) + Kth(q, Len(q) \div 2 + 1)

\* rt < std(q) + median(q) with std the square root of the sample variance
\* (n q.q - (sum q)^2) / (n (n - 1)), 0 for n < 2; in integers
UnderLimit(rt, q) ==
  LET n == Len(q)
      sm == SumInts(q)
      sq == SumInts([i \in DOMAIN q |-> q[i] * q[i]])
      dd == 2 * rt - TwiceMedian(q)
  IN  \/ dd < 0
      \/ n >= 2 /\ dd * dd * n * (n - 1) < 4 * (n * sq - sm * sm)

C14_ScheduledFailureSurfaced ==
  [][ \A r \in Rounds :
        /\ trigger[r] = "none"
        /\ trigger'[r] \in {"timeout", "interval"}
        /\ syncPc'[r] = "TypeError"
        =>
        /\ errors' = Append(errors, r)
        /\ interval' = interval
    ]_vars

\* C15: new TimeSync(options) with both server and peers given throws and
\* leaves nothing running: the instance is never constructed, no recurring
\* timer is armed, no deferred first sync is pending, no sync() starts and
\* no message is sent.
C15_BothConfiguredThrows ==
  "server" \in options.given /\ "peers" \in options.given =>
    /\ ctor \in {"new", "threw"}
    /\ interval = "null"
    /\ firstSync = "none"
    /\ \A r \in Rounds : syncPc[r] = "idle" /\ trigger[r] = "none"
    /\ calls = <<>>
    /\ inProgress = {}
    /\ outbox = <<>>
    /\ events = <<>>

\* C15 witness: the constructor threw for {server, peers: []}
C15_Witness ==
  ctor = "threw" /\ options.given = {"server", "peers"} /\ options.peers = <<>>

\* the _getOffset attempts a _syncWithPeer run has made: the samples pushed
\* and the attempt in flight
AttemptsMade(t) == t.attempts + (IF t.pc = "rpc" THEN 1 ELSE 0)

\* C16: a _syncWithPeer run never makes more than repeat attempts, for every
\* repeat >= 0; failed attempts count like successful ones, and the run
\* returns as soon as repeat attempts have completed.
C16_AttemptBudget ==
  \A r \in Rounds, p \in AllPeers :
    LET t == task[r][p]
    IN  /\ AttemptsMade(t) <= options.repeat
        /\ t.successes <= t.attempts
        /\ t.pc = "done" <=> t.pc # "none" /\ t.attempts = options.repeat

\* the _syncWithPeer runs that await the call id
Awaiting(id) == {rp \in Rounds \X AllPeers : task[rp[1]][rp[2]].pc = "rpc" /\ task[rp[1]][rp[2]].id = id}

\* C17: the attempts of one _syncWithPeer run are strictly sequential: every
\* pending call is the current attempt of exactly one run (a run has at most
\* one request outstanding), and a run issues a new request only when it has
\* none in flight: as its first attempt, in the step that calls sync(), or
\* from the delay that follows a completed attempt; runs for different
\* peers are not ordered among themselves.
C17_SequentialSamples ==
  [][ /\ \A id \in inProgress' : Cardinality(Awaiting(id)') = 1
      /\ \A r \in Rounds, p \in AllPeers :
           task'[r][p].id # NoId /\ task'[r][p].id # task[r][p].id =>
             /\ task[r][p].id = NoId
             /\ task'[r][p].id \notin inProgress
             /\ \/ task[r][p].pc = "none" /\ syncPc[r] = "idle" /\ syncPc'[r] # "idle"
                \/ /\ task[r][p].pc = "wait"
                   /\ task[r][p].attempts >= 1
                   /\ \E oc \in SendOutcomes : waitAndSync(r, p, oc, clock')
    ]_vars

\* C17 witness: the second attempt of a run is outstanding
C17_Witness ==
  \E r \in Rounds, p \in AllPeers :
    /\ task[r][p].attempts >= 1
    /\ task[r][p].pc = "rpc"
    /\ task[r][p].id \in inProgress

\* the ids of the calls issued and not completed (neither resolved nor rejected)
Outstanding == {id \in 0..(Len(calls) - 1) : Call(id).state = "pending"}

\* the ids the _syncWithPeer runs hold for their attempt in flight
HeldIds(tk) == {tk[r][p].id : r \in Rounds, p \in AllPeers} \ {NoId}

\* C18: the keys of _inProgress are exactly the ids of the calls issued and
\* not yet completed; ids come from a counter that only grows: the calls a
\* step issues get the counter's values in order, every id below the
\* counter was issued once, no two attempts in flight share an id, and the
\* id of a completed call is not a key.
C18_PendingKeys ==
  [][ /\ inProgress' = Outstanding'
      /\ Len(calls') = nextIdValue'
      /\ nextIdValue' >= nextIdValue
      /\ HeldIds(task') \ HeldIds(task) = nextIdValue..(nextIdValue' - 1)
      /\ \A r, q \in Rounds, p, o \in AllPeers :
           <<r, p>> # <<q, o>> /\ task'[r][p].id # NoId => task'[r][p].id # task'[q][o].id
      /\ \A id \in 0..(Len(calls') - 1) :
           calls'[id + 1].state # "pending" => id \notin inProgress'
    ]_vars

\* C18 witness: of two calls issued one was resolved and the other is a key
C18_Witness ==
  /\ nextIdValue = 2
  /\ Cardinality(inProgress) = 1
  /\ \E id \in 0..1 : Call(id).state = "resolved"

====
